---- MODULE Spec2Model ----
(***************************************************************************)
(* Model of the recipe CRUD handlers of app/apis/recipes.py and of the     *)
(* search-and-pagination helper of app/apis/helper.py.                     *)
(*                                                                         *)
(* The database table of recipes is the sequence `store` (in the order     *)
(* an unordered query returns its rows), the primary-key sequence is       *)
(* `next_id`.  Every handler is an operator from the table, the key        *)
(* sequence and the request to the table, the key sequence and the         *)
(* response; the actions apply the handlers.  Strings are sequences of     *)
(* one-character strings, so that lower-casing, validation and substring   *)
(* search are computed and not assumed.  Messages that interpolate a       *)
(* request parameter are represented by their fixed text.                  *)
(*                                                                         *)
(* Spec serves requests without a description one at a time, SpecDesc      *)
(* serves the creates and updates that carry a description one at a time,  *)
(* and SpecRace runs two create requests concurrently, each split at the   *)
(* point where it leaves the uniqueness pre-check and goes on to commit.   *)
(***************************************************************************)
EXTENDS Integers, Sequences, FiniteSets, TLC

VARIABLES store, next_id, last, pc, req

vars == <<store, next_id, last, pc, req>>

(***************************************************************************)
(* Bounds of the model                                                     *)
(***************************************************************************)
MaxRecipes == 2      \* number of recipes ever created in one behaviour
MaxPage == 2         \* largest page number of a request

Users == {1, 2}
Categories == {1, 2}
Procs == {1, 2}

NoneInt == -1        \* an integer argument the request does not carry (None)

\* recipe names of requests: absent or empty, lower case, mixed case with a
\* space, and one with a digit; requests carry no description unless said
NameInputs == {<<>>, <<"a">>, <<"A", " ">>, <<"a", "1">>}
\* search strings of requests
QInputs == {<<>>, <<"A">>, <<" ">>, <<"1">>}
\* descriptions of requests, and the names of the updates that carry one
DescInputs == {<<>>, <<"X">>}
EditNameInputs == {<<>>, <<"a", "1">>}
IdInputs == 1..MaxRecipes
PageInputs == 0..MaxPage

(***************************************************************************)
(* Strings                                                                 *)
(***************************************************************************)
\* str.lower() on the characters of the model
LowerChar(ch) == CASE ch = "A" -> "a" [] ch = "X" -> "x" [] OTHER -> ch

Lower(s) == [i \in 1..Len(s) |-> LowerChar(s[i])]

IsLetter(ch) == ch \in {"a", "A", "x", "X"}

\* q in name
Contains(q, name) ==
    \E i \in 0..(Len(name) - Len(q)) : SubSeq(name, i + 1, i + Len(q)) = q

\* ..validation_helper.name_validator: letters and spaces only, at least one
name_validator(name) ==
    /\ Len(name) > 0
    /\ \A i \in 1..Len(name) : IsLetter(name[i]) \/ name[i] = " "

(***************************************************************************)
(* Storage                                                                 *)
(***************************************************************************)
\* app.models.recipe.Recipe(recipe_name, description, category_id, created_by)
\* once the session has assigned its primary key
Recipe(rid, recipe_name, description, category_id, created_by) ==
    [recipe_id |-> rid, recipe_name |-> recipe_name, ingredients |-> description,
     category_id |-> category_id, created_by |-> created_by]

FilterByOwner(s, user_id) ==
    SelectSeq(s, LAMBDA r : r.created_by = user_id)

FilterByOwnerCategory(s, user_id, category_id) ==
    SelectSeq(s, LAMBDA r : r.created_by = user_id /\ r.category_id = category_id)

FilterByOwnerCategoryId(s, user_id, category_id, recipe_id) ==
    SelectSeq(s, LAMBDA r : /\ r.created_by = user_id
                            /\ r.category_id = category_id
                            /\ r.recipe_id = recipe_id)

FilterByOwnerCategoryName(s, user_id, category_id, recipe_name) ==
    SelectSeq(s, LAMBDA r : /\ r.created_by = user_id
                            /\ r.category_id = category_id
                            /\ r.recipe_name = recipe_name)

\* a delete that removes every recipe of the owner's category
DeleteRow_Category(s, the_recipe) ==
    SelectSeq(s, LAMBDA r : ~(/\ r.created_by = the_recipe.created_by
                              /\ r.category_id = the_recipe.category_id))

\* db.session.delete(the_recipe); db.session.commit()
DeleteRow(s, the_recipe) ==
    SelectSeq(s, LAMBDA r : r.recipe_id # the_recipe.recipe_id)

\* db.session.add(the_recipe); db.session.commit() of a loaded row
UpdateRow(s, the_recipe) ==
    [i \in 1..Len(s) |->
        IF s[i].recipe_id = the_recipe.recipe_id THEN the_recipe ELSE s[i]]

\* BaseQuery.paginate(page, per_page, error_out=False).items
Paginate(items, page, per_page) ==
    LET p == IF page < 1 THEN 1 ELSE page
        lo == (p - 1) * per_page + 1
        hi == IF p * per_page < Len(items) THEN p * per_page ELSE Len(items)
    IN  SubSeq(items, lo, hi)

\* bool(the_recipes) of a query object, which defines no __bool__ or __len__
QueryTruthy(items) == TRUE

(***************************************************************************)
(* Responses                                                               *)
(***************************************************************************)
Response(code, kind, message, rid, data) ==
    [code |-> code, kind |-> kind, message |-> message, recipe_id |-> rid, data |-> data]

Message(code, message) == Response(code, "message", message, 0, <<>>)

MsgNoRecipes == "There are no recipes"
MsgNoRecipesInCategory == "No recipes in category"
MsgAlreadyExists == "Recipe already exists"
MsgCreated == "Recipe has been created"
MsgInvalidNameCreate == "is not a valid name"
MsgNoSuchRecipe == "You don't have a recipe with id"
MsgNoRecipeWithId == "No recipe with id"
MsgEdited == "Recipe details successfully edited"
MsgInvalidNameEdit == "The recipe name should comprise alphabetical characters"
MsgDoesNotExist == "does not exist"
MsgDeleted == "Recipe was deleted"

Result(s, n, resp) == [store |-> s, next_id |-> n, resp |-> resp]

(***************************************************************************)
(* app/apis/helper.py                                                      *)
(***************************************************************************)
per_page_min == 1
per_page_max == 2

PerPageInputs == {NoneInt, per_page_max, per_page_max + 1}

ClampPerPage(per_page) ==
    LET low == IF per_page = NoneInt \/ per_page < per_page_min
               THEN per_page_min ELSE per_page
    IN  IF low > per_page_max THEN per_page_max ELSE low

Matches(items, q) ==
    SelectSeq(items, LAMBDA r : Contains(Lower(q), Lower(r.recipe_name)))

\* a resolver that searches the requested page only
manage_get_PageSearch(items, q, page, per_page) ==
    LET shown == Paginate(items, page, ClampPerPage(per_page))
    IN  IF q # <<>> /\ Matches(shown, q) # <<>>
        THEN Response(200, "single", "", 0, <<Head(Matches(shown, q))>>)
        ELSE Response(200, "list", "", 0, shown)

manage_get(items, q, page, per_page) ==
    IF QueryTruthy(items)
    THEN IF q # <<>> /\ Matches(items, q) # <<>>
         THEN Response(200, "single", "", 0, <<Head(Matches(items, q))>>)
         ELSE Response(200, "list", "", 0, Paginate(items, page, ClampPerPage(per_page)))
    ELSE Message(200, MsgNoRecipes)

(***************************************************************************)
(* app/apis/recipes.py                                                     *)
(***************************************************************************)
Recipess_get(s, user_id, q, page, per_page) ==
    manage_get(FilterByOwner(s, user_id), q, page, per_page)

\* a category listing that is not scoped to the caller
Recipes_get_AnyOwner(s, user_id, category_id, q, page, per_page) ==
    LET the_recipes == SelectSeq(s, LAMBDA r : r.category_id = category_id)
    IN  IF the_recipes = <<>>
        THEN Message(404, MsgNoRecipesInCategory)
        ELSE manage_get(the_recipes, q, page, per_page)

Recipes_get(s, user_id, category_id, q, page, per_page) ==
    LET the_recipes == FilterByOwnerCategory(s, user_id, category_id)
    IN  IF the_recipes = <<>>
        THEN Message(404, MsgNoRecipesInCategory)
        ELSE manage_get(the_recipes, q, page, per_page)

\* the uniqueness pre-check of create
PostLookup(s, created_by, category_id, recipe_name) ==
    FilterByOwnerCategoryName(s, created_by, category_id, recipe_name)

\* an insert under a unique constraint on (created_by, category_id, recipe_name)
PostInsert_Unique(s, n, recipe_name, description, category_id, created_by) ==
    IF FilterByOwnerCategoryName(s, created_by, category_id, recipe_name) # <<>>
    THEN Result(s, n, Message(200, MsgAlreadyExists))
    ELSE Result(Append(s, Recipe(n, recipe_name, description, category_id, created_by)),
                n + 1,
                Response(201, "created", MsgCreated, n, <<>>))

\* the insert of create
PostInsert(s, n, recipe_name, description, category_id, created_by) ==
    Result(Append(s, Recipe(n, recipe_name, description, category_id, created_by)),
           n + 1,
           Response(201, "created", MsgCreated, n, <<>>))

\* a create whose pre-check compares the name as given
Recipes_post_RawLookup(s, n, user_id, category_id, recipe_name, description) ==
    IF name_validator(recipe_name)
    THEN IF PostLookup(s, user_id, category_id, recipe_name) # <<>>
         THEN Result(s, n, Message(200, MsgAlreadyExists))
         ELSE PostInsert(s, n, Lower(recipe_name), Lower(description), category_id, user_id)
    ELSE Result(s, n, Message(400, MsgInvalidNameCreate))

Recipes_post(s, n, user_id, category_id, recipe_name, description) ==
    IF name_validator(recipe_name)
    THEN IF PostLookup(s, user_id, category_id, Lower(recipe_name)) # <<>>
         THEN Result(s, n, Message(200, MsgAlreadyExists))
         ELSE PostInsert(s, n, Lower(recipe_name), Lower(description), category_id, user_id)
    ELSE Result(s, n, Message(400, MsgInvalidNameCreate))

Recipee_get(s, user_id, category_id, recipe_id) ==
    LET found == FilterByOwnerCategoryId(s, user_id, category_id, recipe_id)
    IN  IF found # <<>>
        THEN Response(200, "single", "", 0, <<Head(found)>>)
        ELSE Message(404, MsgNoSuchRecipe)

\* an update that keeps the case of the name
PutName_NoLower(the_recipe, recipe_name) ==
    IF recipe_name = <<>> THEN the_recipe.recipe_name ELSE recipe_name

\* the name an update validates and stores
PutName(the_recipe, recipe_name) ==
    Lower(IF recipe_name = <<>> THEN the_recipe.recipe_name ELSE recipe_name)

\* an update that keeps the case of the description
PutDescription_NoLower(the_recipe, description) ==
    IF description = <<>> THEN the_recipe.ingredients ELSE description

\* the description an update stores
PutDescription(the_recipe, description) ==
    Lower(IF description = <<>> THEN the_recipe.ingredients ELSE description)

\* an update that stores the name without validating it
Recipee_put_NoValidation(s, n, user_id, category_id, recipe_id, recipe_name, description) ==
    LET found == FilterByOwnerCategoryId(s, user_id, category_id, recipe_id)
    IN  IF found = <<>>
        THEN Result(s, n, Message(404, MsgNoRecipeWithId))
        ELSE LET the_recipe == Head(found)
                 new_name == PutName(the_recipe, recipe_name)
                 new_desc == PutDescription(the_recipe, description)
             IN  Result(UpdateRow(s, [the_recipe EXCEPT !.recipe_name = new_name,
                                                        !.ingredients = new_desc]),
                        n, Message(200, MsgEdited))

Recipee_put(s, n, user_id, category_id, recipe_id, recipe_name, description) ==
    LET found == FilterByOwnerCategoryId(s, user_id, category_id, recipe_id)
    IN  IF found = <<>>
        THEN Result(s, n, Message(404, MsgNoRecipeWithId))
        ELSE LET the_recipe == Head(found)
                 new_name == PutName(the_recipe, recipe_name)
                 new_desc == PutDescription(the_recipe, description)
             IN  IF name_validator(new_name)
                 THEN Result(UpdateRow(s, [the_recipe EXCEPT !.recipe_name = new_name,
                                                             !.ingredients = new_desc]),
                             n, Message(200, MsgEdited))
                 ELSE Result(s, n, Message(200, MsgInvalidNameEdit))

Recipee_delete(s, n, user_id, category_id, recipe_id) ==
    LET found == FilterByOwnerCategoryId(s, user_id, category_id, recipe_id)
    IN  IF found = <<>>
        THEN Result(s, n, Message(200, MsgDoesNotExist))
        ELSE Result(DeleteRow(s, Head(found)), n, Message(200, MsgDeleted))

(***************************************************************************)
(* Requests handled one at a time: `last` is the request being answered    *)
(* with its response, NoRequest when the worker is idle                    *)
(***************************************************************************)
Request(op, caller, category_id, recipe_id, recipe_name, description, q, page, per_page, resp) ==
    [op |-> op, caller |-> caller, category_id |-> category_id, recipe_id |-> recipe_id,
     recipe_name |-> recipe_name, description |-> description,
     q |-> q, page |-> page, per_page |-> per_page, resp |-> resp]

NoRequest == Request("none", 0, 0, 0, <<>>, <<>>, <<>>, 0, NoneInt, Message(0, ""))

\* the route and method of a request select its handler
Handle(rq, s, n) ==
    CASE rq.op = "list_all" ->
            Result(s, n, Recipess_get(s, rq.caller, rq.q, rq.page, rq.per_page))
      [] rq.op = "list_in_category" ->
            Result(s, n, Recipes_get(s, rq.caller, rq.category_id, rq.q, rq.page, rq.per_page))
      [] rq.op = "create" ->
            Recipes_post(s, n, rq.caller, rq.category_id, rq.recipe_name, rq.description)
      [] rq.op = "get_single" ->
            Result(s, n, Recipee_get(s, rq.caller, rq.category_id, rq.recipe_id))
      [] rq.op = "update" ->
            Recipee_put(s, n, rq.caller, rq.category_id, rq.recipe_id,
                        rq.recipe_name, rq.description)
      [] rq.op = "delete" ->
            Recipee_delete(s, n, rq.caller, rq.category_id, rq.recipe_id)

\* one request handled to completion, when the worker is idle
Serve(rq) ==
    LET r == Handle(rq, store, next_id)
    IN  /\ store' = r.store
        /\ next_id' = r.next_id
        /\ last' = [rq EXCEPT !.resp = r.resp]
        /\ UNCHANGED <<pc, req>>

NoResponse == Message(0, "")

IdleProcs == [p \in Procs |-> "idle"]
NoRequests == [p \in Procs |-> [caller |-> 0, category_id |-> 0, recipe_name |-> <<>>,
                                description |-> <<>>, resp |-> NoResponse]]

Init ==
    /\ store = <<>>
    /\ next_id = 1
    /\ last = NoRequest
    /\ pc = IdleProcs
    /\ req = NoRequests

ListAll ==
    /\ last = NoRequest
    /\ \E c \in Users, q \in QInputs, page \in PageInputs, per_page \in PerPageInputs :
        Serve(Request("list_all", c, 0, 0, <<>>, <<>>, q, page, per_page, NoResponse))

ListInCategory ==
    /\ last = NoRequest
    /\ \E c \in Users, cat \in Categories, q \in QInputs,
          page \in PageInputs, per_page \in PerPageInputs :
        Serve(Request("list_in_category", c, cat, 0, <<>>, <<>>, q, page, per_page, NoResponse))

Create ==
    /\ last = NoRequest
    /\ next_id <= MaxRecipes
    /\ \E c \in Users, cat \in Categories, name \in NameInputs :
        Serve(Request("create", c, cat, 0, name, <<>>, <<>>, 0, NoneInt, NoResponse))

GetSingle ==
    /\ last = NoRequest
    /\ \E c \in Users, cat \in Categories, rid \in IdInputs :
        Serve(Request("get_single", c, cat, rid, <<>>, <<>>, <<>>, 0, NoneInt, NoResponse))

Update ==
    /\ last = NoRequest
    /\ \E c \in Users, cat \in Categories, rid \in IdInputs, name \in NameInputs :
        Serve(Request("update", c, cat, rid, name, <<>>, <<>>, 0, NoneInt, NoResponse))

Delete ==
    /\ last = NoRequest
    /\ \E c \in Users, cat \in Categories, rid \in IdInputs :
        Serve(Request("delete", c, cat, rid, <<>>, <<>>, <<>>, 0, NoneInt, NoResponse))

\* the response is returned and the worker takes the next request
Respond ==
    /\ last # NoRequest
    /\ last' = NoRequest
    /\ UNCHANGED <<store, next_id, pc, req>>

Next ==
    \/ ListAll
    \/ ListInCategory
    \/ Create
    \/ GetSingle
    \/ Update
    \/ Delete
    \/ Respond

Spec == Init /\ [][Next]_vars

(***************************************************************************)
(* Requests that carry a description, handled one at a time                *)
(***************************************************************************)
CreateDescribed ==
    /\ last = NoRequest
    /\ next_id <= MaxRecipes
    /\ \E c \in Users, cat \in Categories, desc \in DescInputs :
        Serve(Request("create", c, cat, 0, <<"A", " ">>, desc, <<>>, 0, NoneInt, NoResponse))

UpdateDescribed ==
    /\ last = NoRequest
    /\ \E c \in Users, cat \in Categories, rid \in IdInputs,
          name \in EditNameInputs, desc \in DescInputs :
        Serve(Request("update", c, cat, rid, name, desc, <<>>, 0, NoneInt, NoResponse))

NextDesc ==
    \/ CreateDescribed
    \/ UpdateDescribed
    \/ Respond

SpecDesc == Init /\ [][NextDesc]_vars

(***************************************************************************)
(* Two create requests served concurrently: each runs validation and the   *)
(* uniqueness pre-check in one step and the insert with its commit in a    *)
(* later step                                                              *)
(***************************************************************************)
\* name_validator, lower() and the pre-check query of create
PostCheck(p) ==
    /\ pc[p] = "idle"
    /\ \E c \in Users, cat \in Categories, name \in NameInputs, desc \in DescInputs :
        IF name_validator(name)
        THEN IF PostLookup(store, c, cat, Lower(name)) # <<>>
             THEN /\ pc' = [pc EXCEPT ![p] = "done"]
                  /\ req' = [req EXCEPT ![p] = [caller |-> c, category_id |-> cat,
                                                recipe_name |-> Lower(name),
                                                description |-> Lower(desc),
                                                resp |-> Message(200, MsgAlreadyExists)]]
             ELSE /\ pc' = [pc EXCEPT ![p] = "checked"]
                  /\ req' = [req EXCEPT ![p] = [caller |-> c, category_id |-> cat,
                                                recipe_name |-> Lower(name),
                                                description |-> Lower(desc),
                                                resp |-> NoResponse]]
        ELSE /\ pc' = [pc EXCEPT ![p] = "done"]
             /\ req' = [req EXCEPT ![p] = [caller |-> c, category_id |-> cat,
                                           recipe_name |-> name,
                                           description |-> desc,
                                           resp |-> Message(400, MsgInvalidNameCreate)]]
    /\ UNCHANGED <<store, next_id, last>>

\* Recipe(...), db.session.add, db.session.commit and the 201 response
PostCommit(p) ==
    /\ pc[p] = "checked"
    /\ LET r == PostInsert(store, next_id, req[p].recipe_name, req[p].description,
                           req[p].category_id, req[p].caller)
       IN  /\ store' = r.store
           /\ next_id' = r.next_id
           /\ req' = [req EXCEPT ![p].resp = r.resp]
    /\ pc' = [pc EXCEPT ![p] = "done"]
    /\ UNCHANGED last

NextRace ==
    \/ \E p \in Procs : PostCheck(p)
    \/ \E p \in Procs : PostCommit(p)

SpecRace == Init /\ [][NextRace]_vars

(***************************************************************************)
(* Properties                                                              *)
(***************************************************************************)
Letters == {"a", "A", "x", "X"}

\* the naming policy: at least one character, letters and spaces only
MeetsPolicy(name) ==
    /\ name # <<>>
    /\ \A i \in 1..Len(name) : name[i] \in Letters \cup {" "}

SameOwnerCategory(r1, r2) ==
    r1.created_by = r2.created_by /\ r1.category_id = r2.category_id

\* the positions of the table a request for (caller, category, id) is scoped to
Targets(s, rq) ==
    {i \in 1..Len(s) : /\ s[i].created_by = rq.caller
                       /\ s[i].category_id = rq.category_id
                       /\ s[i].recipe_id = rq.recipe_id}

\* the records of the table that do not belong to the caller
OtherOwners(s, caller) ==
    SelectSeq(s, LAMBDA r : r.created_by # caller)

\* the collection a list request hands to the resolver
Collection(s, rq) ==
    IF rq.op = "list_all"
    THEN SelectSeq(s, LAMBDA r : r.created_by = rq.caller)
    ELSE SelectSeq(s, LAMBDA r : r.created_by = rq.caller /\ r.category_id = rq.category_id)

NameHas(r, q) == Contains(Lower(q), Lower(r.recipe_name))

MatchPositions(coll, q) == {i \in 1..Len(coll) : NameHas(coll[i], q)}

Served == last = NoRequest /\ last' # NoRequest

\* C1: with requests handled one at a time, no two stored recipes of the same
\* owner and category have names that are equal ignoring case
C1_UniqueNames ==
    \A i, j \in 1..Len(store) :
        (i # j /\ SameOwnerCategory(store[i], store[j]))
            => Lower(store[i].recipe_name) # Lower(store[j].recipe_name)

C3_DuplicateCreate ==
    [][(/\ Served
        /\ last'.op = "create"
        /\ MeetsPolicy(last'.recipe_name)
        /\ \E i \in 1..Len(store) :
              /\ store[i].created_by = last'.caller
              /\ store[i].category_id = last'.category_id
              /\ store[i].recipe_name = Lower(last'.recipe_name))
       => /\ last'.resp = Message(200, MsgAlreadyExists)
          /\ store' = store
          /\ next_id' = next_id]_vars

C3_Witness ==
    /\ last.op = "create"
    /\ last.resp = Message(200, MsgAlreadyExists)
    /\ last.recipe_name # Lower(last.recipe_name)
    /\ \E i \in 1..Len(store) :
          /\ store[i].created_by = last.caller
          /\ store[i].category_id = last.category_id
          /\ store[i].recipe_name = Lower(last.recipe_name)

\* the name an update of record r with the supplied name results in
ResultingName(r, supplied) == IF supplied = <<>> THEN r.recipe_name ELSE supplied

\* C4: a create, or an update of an existing record, whose resulting name fails
\* the naming policy answers the invalid-name message and leaves the table as
\* it was
C4_InvalidName ==
    [][/\ (Served /\ last'.op = "create" /\ ~MeetsPolicy(last'.recipe_name))
            => /\ last'.resp = Message(400, MsgInvalidNameCreate)
               /\ store' = store
               /\ next_id' = next_id
       /\ (/\ Served
           /\ last'.op = "update"
           /\ \E i \in Targets(store, last') :
                 ~MeetsPolicy(ResultingName(store[i], last'.recipe_name)))
            => /\ last'.resp.message = MsgInvalidNameEdit
               /\ store' = store
               /\ next_id' = next_id]_vars

C4_Witness ==
    /\ last.op = "update"
    /\ last.resp.message = MsgInvalidNameEdit
    /\ ~MeetsPolicy(last.recipe_name)
    /\ Targets(store, last) # {}

\* C5: every stored recipe name is non-empty, consists of letters and spaces
\* only and is entirely lower case
C5_StoredNames ==
    \A i \in 1..Len(store) :
        /\ MeetsPolicy(store[i].recipe_name)
        /\ \A k \in 1..Len(store[i].recipe_name) : store[i].recipe_name[k] # "A"

C5_Witness ==
    /\ last.op \in {"create", "update"}
    /\ last.resp.code \in {200, 201}
    /\ last.resp.message \in {MsgCreated, MsgEdited}
    /\ last.recipe_name # Lower(last.recipe_name)
    /\ \E i \in 1..Len(store) : store[i].recipe_name = Lower(last.recipe_name)

\* C6: a successful update that supplies a description and no name sets the
\* description of its record to the lower-cased new description and changes
\* nothing else of that record nor any other record
C6_DescriptionOnly ==
    [][(/\ Served
        /\ last'.op = "update"
        /\ last'.recipe_name = <<>>
        /\ last'.description # <<>>
        /\ last'.resp = Message(200, MsgEdited))
       => /\ Targets(store, last') # {}
          /\ Len(store') = Len(store)
          /\ \A i \in 1..Len(store) :
                IF i \in Targets(store, last')
                THEN store'[i] = [store[i] EXCEPT !.ingredients = Lower(last'.description)]
                ELSE store'[i] = store[i]]_vars

C6_Witness ==
    /\ last.op = "update"
    /\ last.recipe_name = <<>>
    /\ last.description = <<"X">>
    /\ last.resp = Message(200, MsgEdited)
    /\ Len(store) = 2
    /\ \E i \in Targets(store, last) :
          store[i].ingredients = <<"x">> /\ store[i].recipe_name = <<"a", " ">>
    /\ \E i \in 1..Len(store) : store[i].ingredients = <<>>

\* C7: a delete changes the table by at most one record: without a matching
\* record it answers 'does not exist' and changes nothing, with one it removes
\* exactly that record, and a get of the same record then answers not-found
C7_Delete ==
    [][(Served /\ last'.op = "delete")
       => IF Targets(store, last') = {}
          THEN /\ last'.resp = Message(200, MsgDoesNotExist)
               /\ store' = store
          ELSE /\ Cardinality(Targets(store, last')) = 1
               /\ Len(store') = Len(store) - 1
               /\ \A i \in 1..Len(store) :
                     LET before == Cardinality({k \in Targets(store, last') : k < i})
                     IN  i \notin Targets(store, last') => store'[i - before] = store[i]
               /\ Recipee_get(store', last'.caller, last'.category_id, last'.recipe_id)
                      = Message(404, MsgNoSuchRecipe)]_vars

C7_Witness ==
    /\ last.op = "delete"
    /\ last.resp = Message(200, MsgDeleted)
    /\ \E i \in 1..Len(store) : SameOwnerCategory(store[i],
                                   [created_by |-> last.caller, category_id |-> last.category_id])

\* C8: a search with a non-empty q that some record of the collection matches
\* answers the single first matching record of the collection, whatever page
\* and per_page are and however many records match
C8_FirstMatch ==
    [][(/\ Served
        /\ last'.op \in {"list_all", "list_in_category"}
        /\ last'.q # <<>>
        /\ MatchPositions(Collection(store, last'), last'.q) # {})
       => LET coll == Collection(store, last')
              first == CHOOSE i \in MatchPositions(coll, last'.q) :
                          \A k \in MatchPositions(coll, last'.q) : i <= k
          IN  /\ last'.resp.kind = "single"
              /\ last'.resp.data = <<coll[first]>>]_vars

C8_Witness ==
    /\ last.op = "list_all"
    /\ last.resp.kind = "single"
    /\ last.page = 2
    /\ last.per_page = NoneInt
    /\ Cardinality(MatchPositions(Collection(store, last), last.q)) = 2

\* C9: a list request whose collection is empty is answered 'There are no
\* recipes' by the resolver and never a page of results
C9_EmptyCollection ==
    (last.op = "list_all" /\ Collection(store, last) = <<>>)
        => last.resp = Message(200, MsgNoRecipes)

\* C10: the pre-check and the insert of create are separate steps: a request
\* that has passed the pre-check inserts its record and answers 201 whatever
\* has been committed in between
C10_CheckThenInsert ==
    [][\A p \in Procs :
        (pc[p] = "checked" /\ pc'[p] = "done")
            => /\ store' = Append(store, Recipe(next_id, req[p].recipe_name,
                                                req[p].description, req[p].category_id,
                                                req[p].caller))
               /\ req'[p].resp = Response(201, "created", MsgCreated, next_id, <<>>)]_vars

C10_Witness ==
    /\ \A p \in Procs : pc[p] = "done" /\ req[p].resp.code = 201
    /\ req[1].caller = req[2].caller
    /\ req[1].category_id = req[2].category_id
    /\ req[1].recipe_name = req[2].recipe_name
    /\ Len(store) = 2
    /\ SameOwnerCategory(store[1], store[2])
    /\ store[1].recipe_name = store[2].recipe_name
====
